---- MODULE Spec2Model ----
(***************************************************************************)
(* Model of ntnx_cluster_handler.py: the main menu loop and the VM         *)
(* creation wizard (VmCreationController) driving the VmConfigModel        *)
(* builder.  Every input() call is one step of the state machine; the      *)
(* code that runs between two input() calls belongs to the step of the     *)
(* first one.  Python dicts are functions from key strings to values, and  *)
(* the lines handed to int() are sequences of characters.                  *)
(***************************************************************************)
EXTENDS Integers, Sequences, FiniteSets, TLC

(***************************************************************************)
(* Bounds of the model and the input alphabets.                            *)
(***************************************************************************)
MaxDisks == 2
MaxNics == 2

\* Answers typed at a [Y/N] prompt.
Responses == {"Y", "y", "N", ""}
\* Lines typed at the main menu.
MenuInputs == {"1", "2", "3", "4", "5", "99", "x"}
\* Lines typed at the VM name prompt.
NameInputs == {"web01", ""}
\* Lines typed at the numeric prompts, each the sequence of the Unicode code
\* points of its characters.
\* vCPUs: " 2", the fullwidth digit two, "x".
VcpuLines == {<<32, 50>>, <<65298>>, <<120>>}
\* Cores per vCPU: "1", an ideographic space before "1", "1.5".
CoreLines == {<<49>>, <<12288, 49>>, <<49, 46, 53>>}
\* Memory: "4096", "4096" followed by a form feed, the empty line.
MemoryLines == {<<52, 48, 57, 54>>, <<52, 48, 57, 54, 12>>, << >>}
\* Lines typed at the disk size prompt: "50", "-1", "1G".
SizeLines == {<<53, 48>>, <<45, 49>>, <<49, 71>>}
\* Lines typed at the disk type prompt.
BusInputs == {"SCSI", "IDE", "PCI", "scsi"}
\* Lines typed at the container name and network name prompts.
ContainerNameInputs == {"ctr-1", "ctr-2", "nope"}
NetworkNameInputs == {"net-1", "net-2", "nope"}
\* Lines typed at the request IP address prompt.
IpInputs == {"10.0.0.5"}

\* Contents of the "entities" list a container fetch can return; the name
\* ctr-2 occurs twice.
ContainerInventories ==
    { << [name |-> "ctr-1", storage_container_uuid |-> "c-uuid-1"],
         [name |-> "ctr-2", storage_container_uuid |-> "c-uuid-2"],
         [name |-> "ctr-2", storage_container_uuid |-> "c-uuid-3"] >> }
\* Contents of the "entities" list a network fetch can return; the name
\* net-2 occurs twice.
NetworkInventories ==
    { << [name |-> "net-1", uuid |-> "n-uuid-1"],
         [name |-> "net-2", uuid |-> "n-uuid-2"],
         [name |-> "net-2", uuid |-> "n-uuid-3"] >> }

(***************************************************************************)
(* Program constants.                                                      *)
(***************************************************************************)
NO_CONN == TRUE
DEBUG == TRUE
\* DISK_TYPE listing the lower-case spelling as well.
DISK_TYPE_WITH_LOWER_CASE == {"SCSI", "IDE", "PCI", "scsi"}
DISK_TYPE == {"SCSI", "IDE", "PCI"}
POST == "post"
GET == "get"

(***************************************************************************)
(* Python values.                                                          *)
(***************************************************************************)
\* The value None of a controller field.
None == [none |-> TRUE]
IsNone(x) == "none" \in DOMAIN x

\* The empty dict {}.
EmptyDict == [k \in {} |-> TRUE]
\* d[k] = v on a dict.
DictSet(d, k, v) == [x \in (DOMAIN d) \cup {k} |-> IF x = k THEN v ELSE d[x]]
\* k in d.
HasKey(d, k) == k \in DOMAIN d

\* A local name that is not bound (no code reads it in that state).
UnboundStr == ""
UnboundInt == 0
UnboundLine == << >>

(***************************************************************************)
(* int(s) of a line s, given as the sequence of the code points of its     *)
(* characters: surrounding whitespace is stripped, one sign is allowed,    *)
(* then decimal digits of any script with single underscores between       *)
(* digits; anything else raises ValueError.                                *)
(***************************************************************************)
\* The characters int() strips: tab to carriage return, space, and the
\* whitespace beyond ASCII (next line, no-break space, the Unicode spaces
\* and separators up to the ideographic space).
Whitespace ==
    (9..13) \cup {32, 133, 160, 5760} \cup (8192..8202)
        \cup {8232, 8233, 8239, 8287, 12288}

\* The digit zero of every run of Unicode decimal digits (category Nd); the
\* digits one to nine of the run follow it.
DecimalZeros ==
    {48, 1632, 1776, 1984, 2406, 2534, 2662, 2790, 2918, 3046, 3174, 3302,
     3430, 3558, 3664, 3792, 3872, 4160, 4240, 6112, 6160, 6470, 6608, 6784,
     6800, 6992, 7088, 7232, 7248, 42528, 43216, 43264, 43472, 43504, 43600,
     44016, 65296, 66720, 68912, 69734, 69872, 69942, 70096, 70384, 70736,
     70864, 71248, 71360, 71472, 71904, 72016, 72784, 73040, 73120, 92768,
     92864, 93008, 120782, 120792, 120802, 120812, 120822, 123200, 123632,
     125264, 130032}
DigitChars == UNION {z..(z + 9) : z \in DecimalZeros}

DigitVal(c) == c - (CHOOSE z \in DecimalZeros : c \in z..(z + 9))

RECURSIVE LStrip(_)
LStrip(s) ==
    IF s # << >> /\ Head(s) \in Whitespace THEN LStrip(Tail(s)) ELSE s

RECURSIVE RStrip(_)
RStrip(s) ==
    IF s # << >> /\ s[Len(s)] \in Whitespace
    THEN RStrip(SubSeq(s, 1, Len(s) - 1))
    ELSE s

Strip(s) == RStrip(LStrip(s))

\* Digits with single underscores (95) strictly between digits, and no more
\* than 4300 digits (the default of sys.int_max_str_digits).
WellFormedDigits(s) ==
    /\ s # << >>
    /\ \A i \in 1..Len(s) : s[i] \in DigitChars \cup {95}
    /\ s[1] # 95
    /\ s[Len(s)] # 95
    /\ \A i \in 1..(Len(s) - 1) : ~(s[i] = 95 /\ s[i + 1] = 95)
    /\ Cardinality({i \in 1..Len(s) : s[i] # 95}) <= 4300

RECURSIVE DigitsValue(_, _)
DigitsValue(s, acc) ==
    IF s = << >> THEN acc
    ELSE IF Head(s) = 95 THEN DigitsValue(Tail(s), acc)
    ELSE DigitsValue(Tail(s), acc * 10 + DigitVal(Head(s)))

\* int(s): [ok |-> FALSE] stands for the ValueError.  The sign is "+" (43)
\* or "-" (45).
PyInt(s) ==
    LET t == Strip(s)
        signed == t # << >> /\ Head(t) \in {43, 45}
        body == IF signed THEN Tail(t) ELSE t
    IN  IF WellFormedDigits(body)
        THEN [ok |-> TRUE,
              val |-> IF signed /\ Head(t) = 45
                      THEN 0 - DigitsValue(body, 0)
                      ELSE DigitsValue(body, 0)]
        ELSE [ok |-> FALSE, val |-> 0]

(***************************************************************************)
(* State.                                                                  *)
(***************************************************************************)
VARIABLES
    pc,                     \* the input() call the process is blocked at
    no_conn,                \* the module flag NO_CONN of this process
    out,                    \* the last line printed
    exit_code,              \* exit status once pc = "exited"
    vm_config_dto,          \* VmCreationController.vm_config_dto (the Builder)
    containers,             \* VmCreationController.containers
    networks,               \* VmCreationController.networks
    vm_name,                \* locals of set_vm_required
    vm_num_vcpus,
    vm_num_cores_per_vcpu,
    vm_memory_mb,
    vm_disk_dto,            \* locals of add_vm_disk
    vm_disk_address_dto,
    vm_disk_create_dto,
    container_name,
    disk_size,
    vm_nic_spec_dto,        \* locals of add_vm_nic
    network_name,
    request_ip_address,
    sync_vm_dto,            \* local vm_config_dto of sync_vm
    request,                \* the rest_call request issued by the last step
    posts,                  \* history: POST calls issued in the current run
    final_response,         \* history: answers to the final confirmation
    disk_inputs,            \* history: inputs confirmed for each disk added
    nic_inputs,             \* history: inputs confirmed for each NIC added
    disk_yes,               \* history: "Y" answers to the add-disk prompt
    nic_yes,                \* history: "Y" answers to the add-NIC prompt
    answer,                 \* the line typed at the [Y/N] prompt of the last step
    post_status             \* status code answered to the POST of the last step

requiredLocals == <<vm_name, vm_num_vcpus, vm_num_cores_per_vcpu, vm_memory_mb>>
diskLocals ==
    <<vm_disk_dto, vm_disk_address_dto, vm_disk_create_dto, container_name,
      disk_size>>
nicLocals == <<vm_nic_spec_dto, network_name, request_ip_address>>
controller == <<vm_config_dto, containers, networks>>
history == <<posts, final_response, disk_inputs, nic_inputs>>
answers == <<disk_yes, nic_yes>>
vars ==
    <<pc, no_conn, out, exit_code, controller, requiredLocals, diskLocals,
      nicLocals, sync_vm_dto, request, history, answers, answer, post_status>>

(***************************************************************************)
(* VmConfigModel: the Builder.                                             *)
(***************************************************************************)
\* VmConfigModel.__init__
VmConfigModel(name, num_vcpus, num_cores_per_vcpu, memory_mb) ==
    [vm_name |-> name,
     vm_num_vcpus |-> num_vcpus,
     vm_num_cores_per_vcpu |-> num_cores_per_vcpu,
     vm_memory_mb |-> memory_mb,
     vm_disks |-> << >>,
     vm_nics |-> << >>]

\* add_disk doing nothing, as remove_disk does.
add_disk_pass(self, vm_disk) == self

\* VmConfigModel.add_disk
add_disk(self, vm_disk) ==
    [self EXCEPT !.vm_disks = Append(self.vm_disks, vm_disk)]

\* add_nic appending to the list of disks.
add_nic_to_disks(self, vm_nic_spec) ==
    [self EXCEPT !.vm_disks = Append(self.vm_disks, vm_nic_spec)]

\* VmConfigModel.add_nic
add_nic(self, vm_nic_spec) ==
    [self EXCEPT !.vm_nics = Append(self.vm_nics, vm_nic_spec)]

\* remove_disk taking the last disk off the list.
remove_disk_pop_last(self) ==
    [self EXCEPT !.vm_disks = SubSeq(self.vm_disks, 1, Len(self.vm_disks) - 1)]

\* VmConfigModel.remove_disk and remove_nic: pass.
remove_disk(self) == self
remove_nic(self) == self

\* SyncVmDto with the tests of lines 182 and 185 left out.
SyncVmDtoEmptyLists(self) ==
    [name |-> self.vm_name,
     num_vcpus |-> self.vm_num_vcpus,
     num_cores_per_vcpu |-> self.vm_num_cores_per_vcpu,
     memory_mb |-> self.vm_memory_mb,
     vm_disks |-> self.vm_disks,
     vm_nics |-> self.vm_nics]

\* The dict vm_config_dto that sync_vm builds (lines 179-186).
SyncVmDto(self) ==
    LET base == [name |-> self.vm_name,
                 num_vcpus |-> self.vm_num_vcpus,
                 num_cores_per_vcpu |-> self.vm_num_cores_per_vcpu,
                 memory_mb |-> self.vm_memory_mb]
        withDisks == IF self.vm_disks # << >>
                     THEN DictSet(base, "vm_disks", self.vm_disks)
                     ELSE base
    IN  IF self.vm_nics # << >>
        THEN DictSet(withDisks, "vm_nics", self.vm_nics)
        ELSE withDisks

(***************************************************************************)
(* Inventory fetches (ContainerListModel, NetworkListModel, ClusterModel). *)
(* A fetch either yields the "entities" list or raises.                    *)
(***************************************************************************)
ContainerFetches ==
    {[ok |-> TRUE, entities |-> inv] : inv \in ContainerInventories}
        \cup {[ok |-> FALSE, entities |-> << >>]}
NetworkFetches ==
    {[ok |-> TRUE, entities |-> inv] : inv \in NetworkInventories}
        \cup {[ok |-> FALSE, entities |-> << >>]}

\* The rest_call a model constructor issues: none when NO_CONN is set (the
\* entities then come from the fixture file).
FetchRequest(sub_url) ==
    IF no_conn
    THEN None
    ELSE [method_type |-> GET, sub_url |-> sub_url, payload_json |-> None]

\* The object a model constructor returns.
ContainerListModel(entities) == [containers |-> entities]
NetworkListModel(entities) == [networks |-> entities]

\* {record["name"]: record for record in entities}: the last record of a
\* name wins.
NamesOf(entities) == {entities[i].name : i \in 1..Len(entities)}
LastIndexOf(entities, n) ==
    CHOOSE i \in 1..Len(entities) :
        /\ entities[i].name = n
        /\ \A j \in (i + 1)..Len(entities) : entities[j].name # n
DictByName(entities) ==
    [n \in NamesOf(entities) |-> entities[LastIndexOf(entities, n)]]

\* The name bound by `for name in d.keys()` once the loop is over: the key
\* inserted last, i.e. the name whose first record comes last; an empty
\* dict leaves the former binding.
FirstIndexOf(entities, n) ==
    CHOOSE i \in 1..Len(entities) :
        /\ entities[i].name = n
        /\ \A j \in 1..(i - 1) : entities[j].name # n
LastKey(entities, bound) ==
    IF entities = << >>
    THEN bound
    ELSE CHOOSE n \in NamesOf(entities) :
             \A m \in NamesOf(entities) :
                 FirstIndexOf(entities, m) <= FirstIndexOf(entities, n)

(***************************************************************************)
(* Responses of the cluster to POST vms (rest_call, lines 60-68).          *)
(***************************************************************************)
PostResponses ==
    { \* 201 with a JSON object holding task_uuid
      [raises |-> "", status_code |-> 201, truthy |-> TRUE,
       is_dict |-> TRUE, task_uuid |-> "task-1"],
      \* 500 with a non-empty JSON object
      [raises |-> "", status_code |-> 500, truthy |-> TRUE,
       is_dict |-> TRUE, task_uuid |-> "None"],
      \* 500 with an empty JSON object
      [raises |-> "", status_code |-> 500, truthy |-> FALSE,
       is_dict |-> TRUE, task_uuid |-> "None"],
      \* 500 with a non-empty JSON list: vms.get raises at line 198
      [raises |-> "AttributeError", status_code |-> 500, truthy |-> TRUE,
       is_dict |-> FALSE, task_uuid |-> "None"],
      \* 500 with a body that is not JSON: json.loads raises at line 68
      [raises |-> "JSONDecodeError", status_code |-> 500, truthy |-> FALSE,
       is_dict |-> FALSE, task_uuid |-> "None"],
      \* no answer: session.post raises at line 62
      [raises |-> "Exception", status_code |-> 0, truthy |-> FALSE,
       is_dict |-> FALSE, task_uuid |-> "None"] }

(***************************************************************************)
(* Initial state: MainMenu.main_loop blocked at the menu prompt.           *)
(***************************************************************************)
NoLocals ==
    /\ vm_name = UnboundStr
    /\ vm_num_vcpus = UnboundInt
    /\ vm_num_cores_per_vcpu = UnboundInt
    /\ vm_memory_mb = UnboundInt
    /\ vm_disk_dto = EmptyDict
    /\ vm_disk_address_dto = EmptyDict
    /\ vm_disk_create_dto = EmptyDict
    /\ container_name = UnboundStr
    /\ disk_size = UnboundLine
    /\ vm_nic_spec_dto = EmptyDict
    /\ network_name = UnboundStr
    /\ request_ip_address = UnboundStr
    /\ sync_vm_dto = None

InitWith(flag) ==
    /\ pc = "menu"
    /\ no_conn = flag
    /\ out = "NTNX Cluster Handler Main Menu"
    /\ exit_code = 0
    /\ vm_config_dto = None
    /\ containers = None
    /\ networks = None
    /\ NoLocals
    /\ request = None
    /\ posts = 0
    /\ final_response = << >>
    /\ disk_inputs = << >>
    /\ nic_inputs = << >>
    /\ disk_yes = 0
    /\ nic_yes = 0
    /\ answer = << >>
    /\ post_status = 0

\* The program as shipped: NO_CONN = True.
Init == InitWith(NO_CONN)
\* The program with the static flag NO_CONN set to False.
InitOnline == InitWith(FALSE)

(***************************************************************************)
(* Leaving the wizard.                                                     *)
(***************************************************************************)
\* All locals of the wizard's functions go out of scope.
DropLocals ==
    /\ vm_name' = UnboundStr
    /\ vm_num_vcpus' = UnboundInt
    /\ vm_num_cores_per_vcpu' = UnboundInt
    /\ vm_memory_mb' = UnboundInt
    /\ vm_disk_dto' = EmptyDict
    /\ vm_disk_address_dto' = EmptyDict
    /\ vm_disk_create_dto' = EmptyDict
    /\ container_name' = UnboundStr
    /\ disk_size' = UnboundLine
    /\ vm_nic_spec_dto' = EmptyDict
    /\ network_name' = UnboundStr
    /\ request_ip_address' = UnboundStr
    /\ sync_vm_dto' = None

\* DropController with the controller and its Builder kept alive.
DropControllerKept ==
    /\ UNCHANGED <<vm_config_dto, containers, networks>>
    /\ disk_inputs' = << >>
    /\ nic_inputs' = << >>
    /\ disk_yes' = 0
    /\ nic_yes' = 0

\* The VmCreationController of the run, and with it the Builder, is dropped.
DropController ==
    /\ vm_config_dto' = None
    /\ containers' = None
    /\ networks' = None
    /\ disk_inputs' = << >>
    /\ nic_inputs' = << >>
    /\ disk_yes' = 0
    /\ nic_yes' = 0

\* main_loop lines 508-510: an exception reaches the handler of main_loop,
\* which prints it and calls exit(1).
Terminate(ex) ==
    /\ pc' = "exited"
    /\ out' = ex
    /\ exit_code' = 1
    /\ DropLocals
    /\ DropController

\* create_vm returns to main_loop, which loops to the menu prompt.
ReturnToMenu ==
    /\ pc' = "menu"
    /\ DropLocals
    /\ DropController

(***************************************************************************)
(* MainMenu.main_loop (lines 472-510).                                     *)
(***************************************************************************)
\* "99": leave the loop.
MenuExit ==
    /\ pc = "menu"
    /\ post_status' = 0
    /\ answer' = << >>
    /\ request' = None
    /\ pc' = "exited"
    /\ out' = "NTNX Cluster Handler Exit"
    /\ UNCHANGED <<no_conn, exit_code, controller, requiredLocals, diskLocals,
                   nicLocals, sync_vm_dto, history, answers>>

\* "1": ClusterController.print_cluster; the fetch yields a record or raises.
MenuShowCluster ==
    /\ pc = "menu"
    /\ post_status' = 0
    /\ answer' = << >>
    /\ request' = FetchRequest("cluster")
    /\ \E ok \in BOOLEAN :
        IF ok
        THEN /\ out' = "Hypervisor Types"
             /\ UNCHANGED <<pc, exit_code, controller, requiredLocals,
                            diskLocals, nicLocals, sync_vm_dto, disk_inputs,
                            nic_inputs, answers>>
        ELSE Terminate("Exception")
    /\ UNCHANGED <<no_conn, posts, final_response>>

\* "2": ContainerListController.list_containers.
MenuListContainers ==
    /\ pc = "menu"
    /\ post_status' = 0
    /\ answer' = << >>
    /\ request' = FetchRequest("storage_containers")
    /\ \E fetch \in ContainerFetches :
        IF fetch.ok
        THEN /\ out' = (IF fetch.entities = << >>
                        THEN "Getting containers information"
                        ELSE "Capacity")
             /\ UNCHANGED <<pc, exit_code, controller, requiredLocals,
                            diskLocals, nicLocals, sync_vm_dto, disk_inputs,
                            nic_inputs, answers>>
        ELSE Terminate("Exception")
    /\ UNCHANGED <<no_conn, posts, final_response>>

\* "3": NetworkListController.list_networks.
MenuListNetworks ==
    /\ pc = "menu"
    /\ post_status' = 0
    /\ answer' = << >>
    /\ request' = FetchRequest("networks")
    /\ \E fetch \in NetworkFetches :
        IF fetch.ok
        THEN /\ out' = (IF fetch.entities = << >>
                        THEN "Getting networks information"
                        ELSE "NetworkUuid")
             /\ UNCHANGED <<pc, exit_code, controller, requiredLocals,
                            diskLocals, nicLocals, sync_vm_dto, disk_inputs,
                            nic_inputs, answers>>
        ELSE Terminate("Exception")
    /\ UNCHANGED <<no_conn, posts, final_response>>

\* "4": not implemented.
MenuListVms ==
    /\ pc = "menu"
    /\ post_status' = 0
    /\ answer' = << >>
    /\ request' = None
    /\ out' = "Not Implemented!"
    /\ UNCHANGED <<pc, no_conn, exit_code, controller, requiredLocals,
                   diskLocals, nicLocals, sync_vm_dto, history, answers>>

\* "5": VmCreationController(self.rest_api).create_vm() up to the first
\* input() of set_vm_required.
MenuCreateVm ==
    /\ pc = "menu"
    /\ post_status' = 0
    /\ answer' = << >>
    /\ request' = None
    /\ pc' = "name"
    /\ out' = "NTNX Cluster VM Creation Menu"
    /\ vm_config_dto' = None
    /\ containers' = None
    /\ networks' = None
    /\ posts' = 0
    /\ final_response' = << >>
    /\ disk_inputs' = << >>
    /\ nic_inputs' = << >>
    /\ disk_yes' = 0
    /\ nic_yes' = 0
    /\ UNCHANGED <<no_conn, exit_code, requiredLocals, diskLocals, nicLocals,
                   sync_vm_dto>>

\* Any other line.
MenuWrongOperation ==
    /\ pc = "menu"
    /\ post_status' = 0
    /\ answer' = << >>
    /\ request' = None
    /\ \E response \in MenuInputs \ {"99", "1", "2", "3", "4", "5"} :
        out' = "Wrong Operation: "
    /\ UNCHANGED <<pc, no_conn, exit_code, controller, requiredLocals,
                   diskLocals, nicLocals, sync_vm_dto, history, answers>>

(***************************************************************************)
(* VmCreationController.set_vm_required (lines 326-345).                   *)
(***************************************************************************)
\* line 328
EnterVmName ==
    /\ pc = "name"
    /\ post_status' = 0
    /\ answer' = << >>
    /\ request' = None
    /\ \E line \in NameInputs : vm_name' = line
    /\ pc' = "vcpus"
    /\ UNCHANGED <<no_conn, out, exit_code, controller, vm_num_vcpus,
                   vm_num_cores_per_vcpu, vm_memory_mb, diskLocals, nicLocals,
                   sync_vm_dto, history, answers>>

\* line 329
EnterNumVcpus ==
    /\ pc = "vcpus"
    /\ post_status' = 0
    /\ answer' = << >>
    /\ request' = None
    /\ \E line \in VcpuLines :
        IF PyInt(line).ok
        THEN /\ vm_num_vcpus' = PyInt(line).val
             /\ pc' = "cores"
             /\ UNCHANGED <<out, exit_code, controller, vm_name,
                            vm_num_cores_per_vcpu, vm_memory_mb, diskLocals,
                            nicLocals, sync_vm_dto, disk_inputs, nic_inputs,
                            answers>>
        ELSE Terminate("ValueError")
    /\ UNCHANGED <<no_conn, posts, final_response>>

\* line 330
EnterNumCoresPerVcpu ==
    /\ pc = "cores"
    /\ post_status' = 0
    /\ answer' = << >>
    /\ request' = None
    /\ \E line \in CoreLines :
        IF PyInt(line).ok
        THEN /\ vm_num_cores_per_vcpu' = PyInt(line).val
             /\ pc' = "memory"
             /\ UNCHANGED <<out, exit_code, controller, vm_name, vm_num_vcpus,
                            vm_memory_mb, diskLocals, nicLocals, sync_vm_dto,
                            disk_inputs, nic_inputs, answers>>
        ELSE Terminate("ValueError")
    /\ UNCHANGED <<no_conn, posts, final_response>>

\* lines 331-336
EnterMemoryMb ==
    /\ pc = "memory"
    /\ post_status' = 0
    /\ answer' = << >>
    /\ request' = None
    /\ \E line \in MemoryLines :
        IF PyInt(line).ok
        THEN /\ vm_memory_mb' = PyInt(line).val
             /\ pc' = "required_confirm"
             /\ out' = "Memory Size(MB):"
             /\ UNCHANGED <<exit_code, controller, vm_name, vm_num_vcpus,
                            vm_num_cores_per_vcpu, diskLocals, nicLocals,
                            sync_vm_dto, disk_inputs, nic_inputs, answers>>
        ELSE Terminate("ValueError")
    /\ UNCHANGED <<no_conn, posts, final_response>>

\* lines 338-345, then create_vm up to the input() of line 274
ConfirmRequired ==
    /\ pc = "required_confirm"
    /\ post_status' = 0
    /\ request' = None
    /\ \E response \in Responses :
        /\ answer' = <<response>>
        /\ IF response = "Y"
           THEN /\ vm_config_dto' = VmConfigModel(vm_name, vm_num_vcpus,
                                       vm_num_cores_per_vcpu, vm_memory_mb)
                /\ pc' = "disk_ask"
                /\ out' = "Please add DISKs to the VM"
                /\ vm_name' = UnboundStr
                /\ vm_num_vcpus' = UnboundInt
                /\ vm_num_cores_per_vcpu' = UnboundInt
                /\ vm_memory_mb' = UnboundInt
           ELSE /\ pc' = "name"
                /\ UNCHANGED <<out, vm_config_dto, requiredLocals>>
    /\ UNCHANGED <<no_conn, exit_code, containers, networks, diskLocals,
                   nicLocals, sync_vm_dto, history, answers>>

(***************************************************************************)
(* VmCreationController.add_vm_disk (lines 347-409).                       *)
(***************************************************************************)
\* Python integers have arbitrary precision.  A byte size is held as
\* [hi, lo], standing for hi * Limb + lo with 0 <= lo < Limb, so that sizes
\* beyond the machine integers of the model checker are computed exactly.
Limb == 1048576
BigOf(n) == [hi |-> n \div Limb, lo |-> n % Limb]
\* b * k for 0 <= k <= 1024
BigMul(b, k) ==
    LET p == b.lo * k
    IN  [hi |-> b.hi * k + (p \div Limb), lo |-> p % Limb]

\* DiskSizeBytes with one factor 1024 left out.
DiskSizeBytesMiB(g) == BigMul(BigMul(BigOf(g), 1024), 1024)

\* line 398: int(disk_size) * 1024 * 1024 * 1024 for int(disk_size) = g.
DiskSizeBytes(g) == BigMul(BigMul(BigMul(BigOf(g), 1024), 1024), 1024)

\* DiskFlags writing only the flags that vm_disk_dto does not hold yet.
DiskFlagsKeepExisting(dto, device_bus) ==
    LET cd == IF HasKey(dto, "is_cdrom")
              THEN dto
              ELSE DictSet(dto, "is_cdrom", device_bus = "IDE")
        em == IF HasKey(cd, "is_empty")
              THEN cd
              ELSE DictSet(cd, "is_empty", device_bus = "IDE")
    IN  DictSet(em, "is_scsi_pass_through", FALSE)

\* lines 359-366: the flags written into vm_disk_dto for an accepted bus.
DiskFlags(dto, device_bus) ==
    LET cd == DictSet(dto, "is_cdrom", device_bus = "IDE")
        em == DictSet(cd, "is_empty", device_bus = "IDE")
    IN  DictSet(em, "is_scsi_pass_through", FALSE)

\* FinishedDisk with the test of line 405 left out.
FinishedDiskAlwaysCreate(dto, address, create) ==
    DictSet(DictSet(dto, "disk_address", address), "vm_disk_create", create)

\* lines 403-406: the DiskSpec handed to add_disk.
FinishedDisk(dto, address, create) ==
    LET withAddress == DictSet(dto, "disk_address", address)
    IN  IF address["device_bus"] # "IDE"
        THEN DictSet(withAddress, "vm_disk_create", create)
        ELSE withAddress

\* lines 403-409 and the return to the input() of line 274.
AppendDisk(address, create) ==
    /\ vm_config_dto' =
           (IF FinishedDisk(vm_disk_dto, address, create) # EmptyDict
            THEN add_disk(vm_config_dto,
                          FinishedDisk(vm_disk_dto, address, create))
            ELSE vm_config_dto)
    /\ disk_inputs' = Append(disk_inputs,
                             [device_bus |-> address["device_bus"],
                              container_name |-> container_name,
                              disk_size |-> disk_size,
                              containers |-> containers.containers])
    /\ pc' = "disk_ask"
    /\ out' = "Please add DISKs to the VM"
    /\ vm_disk_dto' = EmptyDict
    /\ vm_disk_address_dto' = EmptyDict
    /\ vm_disk_create_dto' = EmptyDict
    /\ container_name' = UnboundStr
    /\ disk_size' = UnboundLine

\* create_vm lines 274-281; on "Y" add_vm_disk lines 348-351 up to the
\* input() of line 354, otherwise on to the input() of line 285.
AskAddDisk ==
    /\ pc = "disk_ask"
    /\ post_status' = 0
    /\ \E response \in Responses :
        /\ answer' = <<response>>
        /\ IF response = "Y"
           THEN /\ Len(vm_config_dto.vm_disks) < MaxDisks
                /\ request' = FetchRequest("storage_containers")
                /\ \E fetch \in ContainerFetches :
                    IF fetch.ok
                    THEN /\ containers' = ContainerListModel(fetch.entities)
                         /\ pc' = "disk_bus"
                         /\ out' = "Getting containers information"
                         /\ disk_yes' = disk_yes + 1
                         /\ UNCHANGED <<exit_code, vm_config_dto, networks,
                                        requiredLocals, diskLocals, nicLocals,
                                        sync_vm_dto, disk_inputs, nic_inputs,
                                        nic_yes>>
                    ELSE Terminate("Exception")
           ELSE /\ pc' = "nic_ask"
                /\ out' = "Please add NICs to the VM"
                /\ request' = None
                /\ UNCHANGED <<exit_code, controller, requiredLocals, diskLocals,
                               nicLocals, sync_vm_dto, disk_inputs, nic_inputs,
                               answers>>
    /\ UNCHANGED <<no_conn, posts, final_response>>

\* lines 354-368
EnterDiskType ==
    /\ pc = "disk_bus"
    /\ post_status' = 0
    /\ answer' = << >>
    /\ request' = None
    /\ \E line \in BusInputs :
        /\ vm_disk_address_dto' = DictSet(vm_disk_address_dto, "device_bus", line)
        /\ IF line \notin DISK_TYPE
           THEN /\ out' = "Please input [SCSI/IDE/PCI]"
                /\ UNCHANGED <<pc, vm_disk_dto>>
           ELSE /\ vm_disk_dto' = DiskFlags(vm_disk_dto, line)
                /\ out' = "Device Bus:"
                /\ pc' = "disk_bus_confirm"
    /\ UNCHANGED <<no_conn, exit_code, controller, requiredLocals,
                   vm_disk_create_dto, container_name, disk_size, nicLocals,
                   sync_vm_dto, history, answers>>

\* lines 369-389; for an IDE disk on to lines 403-409
ConfirmDiskType ==
    /\ pc = "disk_bus_confirm"
    /\ post_status' = 0
    /\ request' = None
    /\ \E response \in Responses :
        /\ answer' = <<response>>
        /\ IF response = "Y"
           THEN IF vm_disk_address_dto["device_bus"] = "IDE"
                THEN /\ AppendDisk(vm_disk_address_dto, vm_disk_create_dto)
                     /\ UNCHANGED <<containers, networks>>
                ELSE /\ pc' = "disk_container"
                     /\ out' =
                            "Select a container from following containers' list"
                     /\ container_name' =
                            LastKey(containers.containers, container_name)
                     /\ UNCHANGED <<controller, vm_disk_dto,
                                    vm_disk_address_dto, vm_disk_create_dto,
                                    disk_size, disk_inputs>>
           ELSE /\ pc' = "disk_bus"
                /\ UNCHANGED <<out, controller, diskLocals, disk_inputs>>
    /\ UNCHANGED <<no_conn, exit_code, requiredLocals, nicLocals, sync_vm_dto,
                   posts, final_response, nic_inputs, answers>>

\* line 391
EnterContainerName ==
    /\ pc = "disk_container"
    /\ post_status' = 0
    /\ answer' = << >>
    /\ request' = None
    /\ \E line \in ContainerNameInputs : container_name' = line
    /\ pc' = "disk_size"
    /\ UNCHANGED <<no_conn, out, exit_code, controller, requiredLocals,
                   vm_disk_dto, vm_disk_address_dto, vm_disk_create_dto,
                   disk_size, nicLocals, sync_vm_dto, history, answers>>

\* line 392
EnterDiskSize ==
    /\ pc = "disk_size"
    /\ post_status' = 0
    /\ answer' = << >>
    /\ request' = None
    /\ \E line \in SizeLines : disk_size' = line
    /\ pc' = "disk_container_confirm"
    /\ UNCHANGED <<no_conn, out, exit_code, controller, requiredLocals,
                   vm_disk_dto, vm_disk_address_dto, vm_disk_create_dto,
                   container_name, nicLocals, sync_vm_dto, history, answers>>

\* lines 396-398: the create spec of a confirmed container and size.
CreateSpec(create, containers_dict, name, size) ==
    DictSet(DictSet(create, "storage_container_uuid",
                    containers_dict[name].storage_container_uuid),
            "size", DiskSizeBytes(PyInt(size).val))

\* lines 393-409; on a re-ask the loop body of lines 381-389 again
ConfirmContainer ==
    /\ pc = "disk_container_confirm"
    /\ post_status' = 0
    /\ request' = None
    /\ \E response \in Responses :
        /\ answer' = <<response>>
        /\ IF response = "Y"
           THEN LET containers_dict == DictByName(containers.containers)
                IN  IF container_name \notin DOMAIN containers_dict
                    THEN Terminate("KeyError")
                    ELSE IF ~PyInt(disk_size).ok
                    THEN Terminate("ValueError")
                    ELSE /\ AppendDisk(vm_disk_address_dto,
                                       CreateSpec(vm_disk_create_dto,
                                                  containers_dict,
                                                  container_name, disk_size))
                         /\ UNCHANGED <<exit_code, containers, networks,
                                        requiredLocals, nicLocals, sync_vm_dto,
                                        nic_inputs, answers>>
           ELSE /\ pc' = "disk_container"
                /\ out' = "Select a container from following containers' list"
                /\ container_name' =
                       LastKey(containers.containers, container_name)
                /\ UNCHANGED <<exit_code, controller, requiredLocals,
                               vm_disk_dto, vm_disk_address_dto,
                               vm_disk_create_dto, disk_size, nicLocals,
                               sync_vm_dto, disk_inputs, nic_inputs, answers>>
    /\ UNCHANGED <<no_conn, posts, final_response>>

(***************************************************************************)
(* VmCreationController.add_vm_nic (lines 411-457).                        *)
(***************************************************************************)
\* SelectedNic reading the record of another name than the confirmed one.
SelectedNicOtherRecord(spec, networks_dict, name) ==
    LET other == CHOOSE n \in DOMAIN networks_dict :
                     n # name \/ DOMAIN networks_dict = {name}
    IN  DictSet(DictSet(spec, "uuid", networks_dict[other].uuid),
                "request_ip", FALSE)

\* lines 433 and 442: the NicSpec after a network is accepted.
SelectedNic(spec, networks_dict, name) ==
    DictSet(DictSet(spec, "uuid", networks_dict[name].uuid),
            "request_ip", FALSE)

\* RequestedIpNic with line 449 left out.
RequestedIpNicNoFlag(spec, ip) == DictSet(spec, "requested_ip_address", ip)

\* lines 448-449: the NicSpec after a requested IP address is confirmed.
RequestedIpNic(spec, ip) ==
    DictSet(DictSet(spec, "requested_ip_address", ip), "request_ip", TRUE)

\* lines 456-457 and the return to the input() of line 285.
AppendNic(spec) ==
    /\ vm_config_dto' = (IF spec # EmptyDict
                         THEN add_nic(vm_config_dto, spec)
                         ELSE vm_config_dto)
    /\ nic_inputs' = Append(nic_inputs,
                            [network_name |-> network_name,
                             networks |-> networks.networks])
    /\ pc' = "nic_ask"
    /\ out' = "Please add NICs to the VM"
    /\ vm_nic_spec_dto' = EmptyDict
    /\ network_name' = UnboundStr
    /\ request_ip_address' = UnboundStr

\* create_vm lines 285-292; on "Y" add_vm_nic lines 412-426 up to the input()
\* of line 428, otherwise confirm_vm_creation up to the input() of line 318.
AskAddNic ==
    /\ pc = "nic_ask"
    /\ post_status' = 0
    /\ \E response \in Responses :
        /\ answer' = <<response>>
        /\ IF response = "Y"
           THEN /\ Len(vm_config_dto.vm_nics) < MaxNics
                /\ request' = FetchRequest("networks")
                /\ \E fetch \in NetworkFetches :
                    IF fetch.ok
                    THEN /\ networks' = NetworkListModel(fetch.entities)
                         /\ pc' = "nic_name"
                         /\ out' =
                                "Select a network from following networks' list"
                         /\ network_name' =
                                LastKey(fetch.entities, network_name)
                         /\ nic_yes' = nic_yes + 1
                         /\ UNCHANGED <<exit_code, vm_config_dto, containers,
                                        requiredLocals, diskLocals,
                                        vm_nic_spec_dto, request_ip_address,
                                        sync_vm_dto, disk_inputs, nic_inputs,
                                        disk_yes>>
                    ELSE Terminate("Exception")
           ELSE /\ pc' = "final_confirm"
                /\ out' = "Network Information"
                /\ request' = None
                /\ UNCHANGED <<exit_code, controller, requiredLocals, diskLocals,
                               nicLocals, sync_vm_dto, disk_inputs, nic_inputs,
                               answers>>
    /\ UNCHANGED <<no_conn, posts, final_response>>

\* line 428
EnterNetworkName ==
    /\ pc = "nic_name"
    /\ post_status' = 0
    /\ answer' = << >>
    /\ request' = None
    /\ \E line \in NetworkNameInputs : network_name' = line
    /\ pc' = "nic_name_confirm"
    /\ UNCHANGED <<no_conn, out, exit_code, controller, requiredLocals,
                   diskLocals, vm_nic_spec_dto, request_ip_address, sync_vm_dto,
                   history, answers>>

\* lines 429-442; on a re-ask the loop body of lines 417-426 again
ConfirmNetwork ==
    /\ pc = "nic_name_confirm"
    /\ post_status' = 0
    /\ request' = None
    /\ \E response \in Responses :
        /\ answer' = <<response>>
        /\ LET networks_dict == DictByName(networks.networks)
           IN  IF response = "Y"
               THEN IF network_name \in DOMAIN networks_dict
                    THEN /\ vm_nic_spec_dto' =
                                SelectedNic(vm_nic_spec_dto, networks_dict,
                                            network_name)
                         /\ out' = " is selected"
                         /\ pc' = "nic_request_ip"
                         /\ UNCHANGED network_name
                    ELSE /\ out' = " is not right!!!"
                         /\ pc' = "nic_name"
                         /\ network_name' =
                                LastKey(networks.networks, network_name)
                         /\ UNCHANGED vm_nic_spec_dto
               ELSE /\ pc' = "nic_name"
                    /\ out' = "Select a network from following networks' list"
                    /\ network_name' =
                           LastKey(networks.networks, network_name)
                    /\ UNCHANGED vm_nic_spec_dto
    /\ UNCHANGED <<no_conn, exit_code, controller, requiredLocals, diskLocals,
                   request_ip_address, sync_vm_dto, history, answers>>

\* lines 443-444 and 453-457
AskRequestIp ==
    /\ pc = "nic_request_ip"
    /\ post_status' = 0
    /\ request' = None
    /\ \E response \in Responses :
        /\ answer' = <<response>>
        /\ IF response = "Y"
           THEN /\ pc' = "nic_ip"
                /\ UNCHANGED <<out, vm_config_dto, nicLocals, nic_inputs>>
           ELSE AppendNic(vm_nic_spec_dto)
    /\ UNCHANGED <<no_conn, exit_code, containers, networks, requiredLocals,
                   diskLocals, sync_vm_dto, posts, final_response,
                   disk_inputs, answers>>

\* line 445
EnterRequestIp ==
    /\ pc = "nic_ip"
    /\ post_status' = 0
    /\ answer' = << >>
    /\ request' = None
    /\ \E line \in IpInputs : request_ip_address' = line
    /\ pc' = "nic_ip_confirm"
    /\ UNCHANGED <<no_conn, out, exit_code, controller, requiredLocals,
                   diskLocals, vm_nic_spec_dto, network_name, sync_vm_dto,
                   history, answers>>

\* lines 446-452, then 456-457 or back through line 442
ConfirmRequestIp ==
    /\ pc = "nic_ip_confirm"
    /\ post_status' = 0
    /\ request' = None
    /\ \E response \in Responses :
        /\ answer' = <<response>>
        /\ IF response = "Y"
           THEN AppendNic(RequestedIpNic(vm_nic_spec_dto, request_ip_address))
           ELSE /\ vm_nic_spec_dto' = DictSet(vm_nic_spec_dto, "request_ip", FALSE)
                /\ pc' = "nic_request_ip"
                /\ UNCHANGED <<out, vm_config_dto, network_name,
                               request_ip_address, nic_inputs>>
    /\ UNCHANGED <<no_conn, exit_code, containers, networks, requiredLocals,
                   diskLocals, sync_vm_dto, posts, final_response,
                   disk_inputs, answers>>

(***************************************************************************)
(* confirm_vm_creation (lines 299-324) and create_vm lines 294-297.        *)
(***************************************************************************)
\* confirm_vm_creation comparing without regard to case.
confirm_vm_creation_any_case(response) == response \in {"Y", "y"}

\* confirm_vm_creation taking every response but "N" for a yes.
confirm_vm_creation_not_n(response) == response # "N"

\* confirm_vm_creation lines 318-324: the value returned for a response.
confirm_vm_creation(response) == response = "Y"

\* Outcomes of output_json (lines 31-34) at line 192: with DEBUG set the
\* dict is written to ./debug, which succeeds or raises OSError (for
\* instance FileNotFoundError when the directory does not exist).
DumpOutcomes == IF DEBUG THEN {TRUE, FALSE} ELSE {TRUE}

\* On True, sync_vm lines 179-192: the request dict is built and dumped.
ConfirmVmCreation ==
    /\ pc = "final_confirm"
    /\ post_status' = 0
    /\ request' = None
    /\ \E response \in Responses :
        /\ answer' = <<response>>
        /\ final_response' = <<response>>
        /\ IF confirm_vm_creation(response)
           THEN \E dumped \in DumpOutcomes :
                    IF dumped
                    THEN /\ sync_vm_dto' = SyncVmDto(vm_config_dto)
                         /\ pc' = "sync_vm"
                         /\ out' = "Creating a VM on the cluster"
                         /\ UNCHANGED <<exit_code, controller,
                                        requiredLocals, diskLocals,
                                        nicLocals, disk_inputs, nic_inputs,
                                        answers>>
                    ELSE Terminate("OSError")
           ELSE /\ out' = "The VM is not created!"
                /\ ReturnToMenu
                /\ UNCHANGED exit_code
    /\ UNCHANGED <<no_conn, posts>>

(***************************************************************************)
(* VmConfigModel.sync_vm lines 194-198 with NtnxRestApiSession.rest_call.  *)
(***************************************************************************)
\* rest_call(POST, "vms", json.dumps(vm_config_dto))
PostRequest(dto) ==
    [method_type |-> POST, sub_url |-> "vms", payload_json |-> dto]

SyncVm ==
    /\ pc = "sync_vm"
    /\ answer' = << >>
    /\ IF ~no_conn
       THEN /\ request' = PostRequest(sync_vm_dto)
            /\ posts' = posts + 1
            /\ \E response \in PostResponses :
                IF response.raises # ""
                THEN /\ Terminate(response.raises)
                     /\ post_status' = response.status_code
                ELSE /\ post_status' = response.status_code
                     /\ out' = (IF response.truthy
                                THEN "Task Id: " \o response.task_uuid
                                         \o "is scheduled"
                                ELSE "Response code: ")
                     /\ ReturnToMenu
                     /\ UNCHANGED exit_code
       ELSE /\ request' = None
            /\ post_status' = 0
            /\ ReturnToMenu
            /\ UNCHANGED <<out, exit_code, posts>>
    /\ UNCHANGED <<no_conn, final_response>>

(***************************************************************************)
(* A client of VmConfigModel calling its methods in any order (lines       *)
(* 137-198).  pc names the method that returned last.                      *)
(***************************************************************************)
\* DiskSpecs and NicSpecs as add_vm_disk and add_vm_nic build them.
DiskSpecs ==
    {FinishedDisk(DiskFlags(EmptyDict, bus),
                  DictSet(EmptyDict, "device_bus", bus),
                  CreateSpec(EmptyDict, DictByName(inv), "ctr-1",
                             <<53, 48>>)) :
         bus \in DISK_TYPE, inv \in ContainerInventories}
NicSpecs ==
    {SelectedNic(EmptyDict, DictByName(inv), name) :
         name \in {"net-1", "net-2"}, inv \in NetworkInventories}

BuilderCalls == {"__init__", "add_disk", "add_nic", "remove_disk",
                 "remove_nic", "sync_vm", "sync_vm raised"}

builderFrame ==
    <<no_conn, exit_code, containers, networks, requiredLocals, diskLocals,
      nicLocals, request, history, answers, answer, post_status>>

\* VmConfigModel(rest_api, name, num_vcpus, num_cores_per_vcpu, memory_mb)
InitBuilder ==
    /\ pc = "__init__"
    /\ no_conn = NO_CONN
    /\ out = "NTNX Cluster VM Creation Menu"
    /\ exit_code = 0
    /\ \E name \in NameInputs, line \in MemoryLines :
        /\ PyInt(line).ok
        /\ vm_config_dto = VmConfigModel(name, 2, 1, PyInt(line).val)
    /\ containers = None
    /\ networks = None
    /\ NoLocals
    /\ request = None
    /\ posts = 0
    /\ final_response = << >>
    /\ disk_inputs = << >>
    /\ nic_inputs = << >>
    /\ disk_yes = 0
    /\ nic_yes = 0
    /\ answer = << >>
    /\ post_status = 0

\* lines 165-166
CallAddDisk ==
    /\ pc \in BuilderCalls
    /\ Len(vm_config_dto.vm_disks) < MaxDisks
    /\ \E vm_disk \in DiskSpecs :
        vm_config_dto' = add_disk(vm_config_dto, vm_disk)
    /\ pc' = "add_disk"
    /\ UNCHANGED <<out, sync_vm_dto, builderFrame>>

\* lines 168-169
CallAddNic ==
    /\ pc \in BuilderCalls
    /\ Len(vm_config_dto.vm_nics) < MaxNics
    /\ \E vm_nic_spec \in NicSpecs :
        vm_config_dto' = add_nic(vm_config_dto, vm_nic_spec)
    /\ pc' = "add_nic"
    /\ UNCHANGED <<out, sync_vm_dto, builderFrame>>

\* lines 171-172
CallRemoveDisk ==
    /\ pc \in BuilderCalls
    /\ vm_config_dto' = remove_disk(vm_config_dto)
    /\ pc' = "remove_disk"
    /\ UNCHANGED <<out, sync_vm_dto, builderFrame>>

\* lines 174-175
CallRemoveNic ==
    /\ pc \in BuilderCalls
    /\ vm_config_dto' = remove_nic(vm_config_dto)
    /\ pc' = "remove_nic"
    /\ UNCHANGED <<out, sync_vm_dto, builderFrame>>

\* lines 177-198 with NO_CONN set: the dict is built and dumped (kept here
\* in sync_vm_dto), nothing is posted; when the dump raises, the exception
\* leaves sync_vm after the print of line 189 and nothing is dumped.
CallSyncVm ==
    /\ pc \in BuilderCalls
    /\ no_conn
    /\ out' = "Creating a VM on the cluster"
    /\ \E dumped \in DumpOutcomes :
        IF dumped
        THEN /\ sync_vm_dto' = SyncVmDto(vm_config_dto)
             /\ pc' = "sync_vm"
        ELSE /\ sync_vm_dto' = None
             /\ pc' = "sync_vm raised"
    /\ UNCHANGED <<vm_config_dto, builderFrame>>

NextBuilder ==
    \/ CallAddDisk
    \/ CallAddNic
    \/ CallRemoveDisk
    \/ CallRemoveNic
    \/ CallSyncVm

(***************************************************************************)
(* Specifications.                                                         *)
(***************************************************************************)
Next ==
    \/ MenuExit
    \/ MenuShowCluster
    \/ MenuListContainers
    \/ MenuListNetworks
    \/ MenuListVms
    \/ MenuCreateVm
    \/ MenuWrongOperation
    \/ EnterVmName
    \/ EnterNumVcpus
    \/ EnterNumCoresPerVcpu
    \/ EnterMemoryMb
    \/ ConfirmRequired
    \/ AskAddDisk
    \/ EnterDiskType
    \/ ConfirmDiskType
    \/ EnterContainerName
    \/ EnterDiskSize
    \/ ConfirmContainer
    \/ AskAddNic
    \/ EnterNetworkName
    \/ ConfirmNetwork
    \/ AskRequestIp
    \/ EnterRequestIp
    \/ ConfirmRequestIp
    \/ ConfirmVmCreation
    \/ SyncVm

\* The program as shipped (NO_CONN = True).
Spec == Init /\ [][Next]_vars
\* The program with NO_CONN = False.
SpecOnline == InitOnline /\ [][Next]_vars
\* A client driving the Builder alone.
SpecBuilder == InitBuilder /\ [][NextBuilder]_vars

(***************************************************************************)
(* Properties.                                                             *)
(***************************************************************************)
BuilderExists == ~IsNone(vm_config_dto)
Disks == IF BuilderExists THEN vm_config_dto.vm_disks ELSE << >>
Nics == IF BuilderExists THEN vm_config_dto.vm_nics ELSE << >>
DeviceBus(disk) == disk["disk_address"]["device_bus"]
\* g * 1073741824 as a byte size.
GiB(g) == [hi |-> g * 1024, lo |-> 0]

\* C1: every DiskSpec of the Builder has the key vm_disk_create if and only
\* if its disk_address.device_bus is not IDE.
C1_DiskCreateIffNotIde ==
    \A i \in 1..Len(Disks) :
        HasKey(Disks[i], "vm_disk_create") <=> DeviceBus(Disks[i]) # "IDE"

\* C1 witness: the Builder holds an IDE disk and a disk of another bus.
C1_Witness ==
    /\ \E i \in 1..Len(Disks) : DeviceBus(Disks[i]) = "IDE"
    /\ \E i \in 1..Len(Disks) : DeviceBus(Disks[i]) \in {"SCSI", "PCI"}

\* C2: every NicSpec of the Builder has the key requested_ip_address if and
\* only if its request_ip is true; the NicSpec under construction at the
\* request-IP prompts (also after an entered address was declined) has
\* request_ip false and no requested_ip_address.
C2_RequestedIpIffRequestIp ==
    /\ \A i \in 1..Len(Nics) :
        HasKey(Nics[i], "requested_ip_address") <=> Nics[i]["request_ip"] = TRUE
    /\ pc \in {"nic_request_ip", "nic_ip", "nic_ip_confirm"} =>
        /\ vm_nic_spec_dto["request_ip"] = FALSE
        /\ ~HasKey(vm_nic_spec_dto, "requested_ip_address")

\* C2 witness: the Builder holds a NIC with a requested address and a NIC
\* without one.
C2_Witness ==
    /\ \E i \in 1..Len(Nics) :
        Nics[i]["request_ip"] = TRUE /\ HasKey(Nics[i], "requested_ip_address")
    /\ \E i \in 1..Len(Nics) :
        Nics[i]["request_ip"] = FALSE /\ ~HasKey(Nics[i], "requested_ip_address")

\* The i-th disk is the one built from the i-th confirmed disk inputs.
DiskMatchesInputs(disk, inputs) ==
    /\ DeviceBus(disk) = inputs.device_bus
    /\ inputs.device_bus # "IDE" =>
        /\ disk["vm_disk_create"]["size"] = GiB(PyInt(inputs.disk_size).val)
        /\ \E j \in 1..Len(inputs.containers) :
            /\ inputs.containers[j].name = inputs.container_name
            /\ inputs.containers[j].storage_container_uuid =
                   disk["vm_disk_create"]["storage_container_uuid"]

\* The i-th NIC is the one built from the i-th confirmed network name.
NicMatchesInputs(nic, inputs) ==
    \E j \in 1..Len(inputs.networks) :
        /\ inputs.networks[j].name = inputs.network_name
        /\ inputs.networks[j].uuid = nic["uuid"]

\* C3: the dict built by sync_vm holds name, num_vcpus, num_cores_per_vcpu
\* and memory_mb; it has the key vm_disks iff a disk was added and the key
\* vm_nics iff a NIC was added, each holding the specs in the order of the
\* adds.
C3_SerializedBody ==
    pc = "sync_vm" =>
        /\ {"name", "num_vcpus", "num_cores_per_vcpu", "memory_mb"}
               \subseteq DOMAIN sync_vm_dto
        /\ DOMAIN sync_vm_dto \subseteq
               {"name", "num_vcpus", "num_cores_per_vcpu", "memory_mb",
                "vm_disks", "vm_nics"}
        /\ sync_vm_dto["name"] = vm_config_dto.vm_name
        /\ sync_vm_dto["num_vcpus"] = vm_config_dto.vm_num_vcpus
        /\ sync_vm_dto["num_cores_per_vcpu"] = vm_config_dto.vm_num_cores_per_vcpu
        /\ sync_vm_dto["memory_mb"] = vm_config_dto.vm_memory_mb
        /\ HasKey(sync_vm_dto, "vm_disks") <=> disk_inputs # << >>
        /\ HasKey(sync_vm_dto, "vm_nics") <=> nic_inputs # << >>
        /\ HasKey(sync_vm_dto, "vm_disks") =>
            /\ Len(sync_vm_dto["vm_disks"]) = Len(disk_inputs)
            /\ \A i \in 1..Len(disk_inputs) :
                DiskMatchesInputs(sync_vm_dto["vm_disks"][i], disk_inputs[i])
        /\ HasKey(sync_vm_dto, "vm_nics") =>
            /\ Len(sync_vm_dto["vm_nics"]) = Len(nic_inputs)
            /\ \A i \in 1..Len(nic_inputs) :
                NicMatchesInputs(sync_vm_dto["vm_nics"][i], nic_inputs[i])

\* C3 witness: sync_vm has built the dict of a VM with two disks of
\* different buses, added in the order SCSI then IDE, and no NIC.
C3_Witness ==
    /\ pc = "sync_vm"
    /\ Len(disk_inputs) = 2
    /\ disk_inputs[1].device_bus = "SCSI"
    /\ disk_inputs[2].device_bus = "IDE"
    /\ nic_inputs = << >>
    /\ ~HasKey(sync_vm_dto, "vm_nics")

IsPost(r) == ~IsNone(r) /\ r.method_type = POST /\ r.sub_url = "vms"

\* C4: a POST to "vms" is issued in a run only if the final confirmation of
\* that run was answered "Y"; after any other answer no request has been
\* sent and the Builder is gone.
C4_NoPostUnlessConfirmed ==
    /\ (posts > 0 \/ IsPost(request)) => final_response = <<"Y">>
    /\ (final_response # << >> /\ final_response # <<"Y">>) =>
        /\ posts = 0
        /\ ~IsPost(request)
        /\ ~BuilderExists
        /\ pc \in {"menu", "exited"}

\* C4 witness: the final confirmation was declined and the wizard printed
\* that the VM is not created.
C4_Witness ==
    /\ final_response = <<"N">>
    /\ pc = "menu"
    /\ out = "The VM is not created!"
    /\ posts = 0

\* C5: when the final confirmation is answered "Y", the run issues exactly
\* one POST to "vms" and then prints the task identifier or the submission
\* error.
C5_ExactlyOnePost ==
    (pc = "menu" /\ final_response = <<"Y">>) =>
        /\ posts = 1
        /\ out \in {"Task Id: task-1is scheduled", "SubmissionError"}

\* C6: confirming a container name that is not in the fetched inventory
\* re-prompts the container selection and leaves the Builder unchanged.
C6_UnknownContainerRejected ==
    [][(/\ pc = "disk_container_confirm"
        /\ container_name \notin NamesOf(containers.containers))
           => (pc' = "disk_container" /\ vm_config_dto' = vm_config_dto)]_vars

\* Every NIC of the Builder carries the uuid of a fetched record whose name
\* is the confirmed name.
NicsMatchInputs ==
    /\ Len(Nics) = Len(nic_inputs)
    /\ \A i \in 1..Len(Nics) : NicMatchesInputs(Nics[i], nic_inputs[i])

\* C7: confirming a network name that is not in the fetched inventory
\* re-prompts the network selection and leaves the Builder unchanged; every
\* NicSpec appended carries the uuid of a fetched record whose name equals
\* the confirmed name.
C7_UnknownNetworkRejected ==
    [][/\ (/\ pc = "nic_name_confirm"
           /\ network_name \notin NamesOf(networks.networks))
              => (pc' = "nic_name" /\ vm_config_dto' = vm_config_dto)
       /\ NicsMatchInputs']_vars

\* C7 witness: with one NIC in the Builder, an unknown network name was
\* confirmed with "Y" and rejected, and the wizard has listed the networks
\* and asks for the name again.
C7_Witness ==
    /\ pc = "nic_name"
    /\ out = " is not right!!!"
    /\ answer = <<"Y">>
    /\ network_name = "net-2"
    /\ Len(Nics) = 1
    /\ Nics[1]["uuid"] = "n-uuid-1"

\* C8: a numeric input that does not parse as an integer never terminates
\* the process.
C8_ParseFailureRecovered ==
    ~(pc = "exited" /\ exit_code = 1 /\ out = "ValueError")

\* C9: a Builder that exists has a non-empty name and positive num_vcpus,
\* num_cores_per_vcpu and memory_mb.
C9_BuilderFieldsValid ==
    BuilderExists =>
        /\ vm_config_dto.vm_name # ""
        /\ vm_config_dto.vm_num_vcpus > 0
        /\ vm_config_dto.vm_num_cores_per_vcpu > 0
        /\ vm_config_dto.vm_memory_mb > 0

\* C10: every non-IDE disk of the Builder has size g * 1073741824 for the
\* size g entered in the confirmed iteration, and the uuid of the container
\* named in that iteration.
C10_SizeAndContainerOfConfirmedIteration ==
    /\ Len(Disks) = Len(disk_inputs)
    /\ \A i \in 1..Len(Disks) : DiskMatchesInputs(Disks[i], disk_inputs[i])

\* C10 witness: a SCSI disk of 50 GB on container ctr-1 is in the Builder
\* with size 53687091200.
C10_Witness ==
    \E i \in 1..Len(Disks) :
        /\ DeviceBus(Disks[i]) = "SCSI"
        /\ disk_inputs[i].disk_size = <<53, 48>>
        /\ disk_inputs[i].container_name = "ctr-1"
        /\ Disks[i]["vm_disk_create"] =
               [storage_container_uuid |-> "c-uuid-1", size |-> GiB(50)]

\* The byte size hi * Limb + lo is strictly positive.
BigPositive(b) == b.hi > 0 \/ (b.hi = 0 /\ b.lo > 0)

\* C11: every non-IDE disk of the Builder carries a vm_disk_create whose
\* byte size is strictly positive.
C11_NonIdeSizePositive ==
    \A i \in 1..Len(Disks) :
        DeviceBus(Disks[i]) # "IDE" =>
            /\ HasKey(Disks[i], "vm_disk_create")
            /\ BigPositive(Disks[i]["vm_disk_create"]["size"])

\* The prompts of set_vm_required, of the disk loop with add_vm_disk, and of
\* the NIC loop with add_vm_nic.
RequiredPhase == {"name", "vcpus", "cores", "memory", "required_confirm"}
DiskPhase == {"disk_ask", "disk_bus", "disk_bus_confirm", "disk_container",
              "disk_size", "disk_container_confirm"}
NicPhase == {"nic_ask", "nic_name", "nic_name_confirm", "nic_request_ip",
             "nic_ip", "nic_ip_confirm"}

\* C12: a wizard run goes through required fields, disk adds, NIC adds,
\* final confirmation and submit in this order.  A disk is added only in the
\* disk phase, to an existing Builder without NICs; a NIC is added only in
\* the NIC phase; the disk phase is entered only from the confirmation of
\* the required fields, with a fresh Builder; the NIC phase is entered only
\* from the add-disk prompt and is never left for an earlier phase, and no
\* disk is added after it; the final confirmation is reached only from the
\* add-NIC prompt; sync_vm is reached only from a final confirmation
\* answered "Y", and a POST is sent only from sync_vm.
C12_FixedLinearOrder ==
    [][/\ Len(Disks') > Len(Disks) =>
            /\ BuilderExists
            /\ pc \in DiskPhase
            /\ Nics = << >>
            /\ Nics' = << >>
       /\ Len(Nics') > Len(Nics) =>
            /\ BuilderExists
            /\ pc \in NicPhase
            /\ Disks' = Disks
       /\ (pc' \in DiskPhase /\ pc \notin DiskPhase) =>
            /\ pc = "required_confirm"
            /\ pc' = "disk_ask"
            /\ ~BuilderExists
            /\ BuilderExists'
            /\ Disks' = << >>
            /\ Nics' = << >>
       /\ (pc' \in NicPhase /\ pc \notin NicPhase) =>
            /\ pc = "disk_ask"
            /\ pc' = "nic_ask"
       /\ pc \in NicPhase \cup {"final_confirm", "sync_vm"} =>
            /\ pc' \notin RequiredPhase \cup DiskPhase
            /\ Len(Disks') <= Len(Disks)
       /\ pc \in {"final_confirm", "sync_vm"} =>
            /\ pc' \notin NicPhase
            /\ Len(Nics') <= Len(Nics)
       /\ (pc' = "final_confirm" /\ pc # "final_confirm") => pc = "nic_ask"
       /\ (pc' = "sync_vm" /\ pc # "sync_vm") =>
            /\ pc = "final_confirm"
            /\ final_response' = <<"Y">>
       /\ (posts' > posts \/ IsPost(request')) =>
            /\ pc = "sync_vm"
            /\ final_response = <<"Y">>
            /\ posts' = posts + 1]_vars

\* C12 witness: a run that added two disks and then one NIC was confirmed
\* and its body was posted.
C12_Witness ==
    /\ pc = "menu"
    /\ posts = 1
    /\ IsPost(request)
    /\ HasKey(request.payload_json, "vm_disks")
    /\ HasKey(request.payload_json, "vm_nics")
    /\ Len(request.payload_json["vm_disks"]) = 2
    /\ Len(request.payload_json["vm_nics"]) = 1

\* The [Y/N] prompts of the wizard.
YesNoPrompts == {"required_confirm", "disk_ask", "disk_bus_confirm",
                 "disk_container_confirm", "nic_ask", "nic_name_confirm",
                 "nic_request_ip", "nic_ip_confirm", "final_confirm"}

\* The step takes the affirmative branch of the prompt it answers.
TakesAffirmative ==
    \/ pc = "required_confirm" /\ pc' = "disk_ask" /\ BuilderExists'
    \/ pc = "disk_ask" /\ request' = FetchRequest("storage_containers")
                       /\ pc' \in {"disk_bus", "exited"}
    \/ pc = "disk_bus_confirm" /\ pc' \in {"disk_container", "disk_ask"}
    \/ pc = "disk_container_confirm" /\ pc' \in {"disk_ask", "exited"}
    \/ pc = "nic_ask" /\ request' = FetchRequest("networks")
                      /\ pc' \in {"nic_name", "exited"}
    \/ pc = "nic_name_confirm"
           /\ \/ pc' = "nic_request_ip"
              \/ pc' = "nic_name" /\ out' = " is not right!!!"
    \/ pc = "nic_request_ip" /\ pc' = "nic_ip"
    \/ pc = "nic_ip_confirm" /\ pc' = "nic_ask"
                             /\ Len(Nics') = Len(Nics) + 1
    \/ pc = "final_confirm" /\ pc' \in {"sync_vm", "exited"}

\* The step ends the add-disk or the add-NIC loop and adds nothing.
EndsLoopWithoutAdding ==
    /\ vm_config_dto' = vm_config_dto
    /\ IsNone(request')
    /\ \/ pc = "disk_ask" /\ pc' = "nic_ask"
       \/ pc = "nic_ask" /\ pc' = "final_confirm"

\* The step goes back to an earlier prompt of the same sub-step.
ReAsksInsideSubStep ==
    /\ vm_config_dto' = vm_config_dto
    /\ \/ pc = "required_confirm" /\ pc' = "name"
       \/ pc = "disk_bus_confirm" /\ pc' = "disk_bus"
       \/ pc = "disk_container_confirm" /\ pc' = "disk_container"
       \/ pc = "nic_name_confirm" /\ pc' = "nic_name"
                                  /\ out' # " is not right!!!"
       \/ pc = "nic_ip_confirm" /\ pc' = "nic_request_ip"

\* The step abandons the run at the final confirmation.
AbandonsAtFinalConfirmation ==
    /\ pc = "final_confirm"
    /\ pc' = "menu"
    /\ out' = "The VM is not created!"
    /\ ~BuilderExists'
    /\ posts' = posts

\* The step leaves the request-IP prompt and appends the NIC without a
\* requested address.
AddsNicWithoutRequestedIp ==
    /\ pc = "nic_request_ip"
    /\ pc' = "nic_ask"
    /\ Len(Nics') = Len(Nics) + 1
    /\ Nics'[Len(Nics')]["request_ip"] = FALSE
    /\ ~HasKey(Nics'[Len(Nics')], "requested_ip_address")

\* C13 as stated: at every [Y/N] prompt the affirmative branch is taken iff
\* the response is exactly "Y", and any other response ends the add-disk or
\* add-NIC loop without adding, re-asks inside a sub-step, or abandons at
\* the final confirmation.
C13_NegativeAsStated ==
    [][(pc \in YesNoPrompts) =>
          (/\ (answer' = <<"Y">>) <=> TakesAffirmative
           /\ answer' # <<"Y">> =>
                 (\/ EndsLoopWithoutAdding
                  \/ ReAsksInsideSubStep
                  \/ AbandonsAtFinalConfirmation))]_vars

\* C13 amended: at every [Y/N] prompt the affirmative branch is taken iff
\* the response is exactly "Y"; any other response ends the add-disk or
\* add-NIC loop without adding, re-asks inside a sub-step, abandons at the
\* final confirmation, or, at the request-IP prompt, appends the NIC
\* without a requested address.
C13_AffirmativeIffExactlyY ==
    [][(pc \in YesNoPrompts) =>
          (/\ (answer' = <<"Y">>) <=> TakesAffirmative
           /\ answer' # <<"Y">> =>
                 (\/ EndsLoopWithoutAdding
                  \/ ReAsksInsideSubStep
                  \/ AbandonsAtFinalConfirmation
                  \/ AddsNicWithoutRequestedIp))]_vars

\* C13 witness: the request-IP prompt was answered "y" and the NIC was
\* appended without a requested address.
C13_Witness ==
    /\ pc = "nic_ask"
    /\ answer = <<"y">>
    /\ Len(Nics) = 1
    /\ Nics[1]["request_ip"] = FALSE
    /\ ~HasKey(Nics[1], "requested_ip_address")

\* C14: when the POST to "vms" was answered with a status code outside
\* 200..299, no task identifier is reported as scheduled, exactly one POST
\* was sent, and the program is back at the main menu.
C14_NonSuccessIsSubmissionError ==
    (IsPost(request) /\ post_status \notin 200..299 /\ post_status # 0) =>
        /\ pc = "menu"
        /\ posts = 1
        /\ out \notin {"Task Id: task-1is scheduled",
                       "Task Id: Noneis scheduled"}

\* The prompts of add_vm_disk that follow an accepted bus type.
AfterBusAccepted == {"disk_bus_confirm", "disk_container", "disk_size",
                     "disk_container_confirm"}

\* C15: a bus type outside {SCSI, IDE, PCI} re-asks the bus-type step and
\* neither changes the Builder nor ends the program; from its acceptance to
\* the append the bus type is the line entered last, a declined bus type is
\* entered again, and every DiskSpec of the Builder has a device_bus in
\* {SCSI, IDE, PCI}, the appended one that of the confirmed iteration.
C15_BusTypeInEnum ==
    [][/\ pc = "disk_bus" =>
            /\ HasKey(vm_disk_address_dto', "device_bus")
            /\ IF vm_disk_address_dto'["device_bus"]
                     \in {"SCSI", "IDE", "PCI"}
               THEN pc' = "disk_bus_confirm"
               ELSE /\ pc' = "disk_bus"
                    /\ out' = "Please input [SCSI/IDE/PCI]"
                    /\ vm_config_dto' = vm_config_dto
                    /\ exit_code' = 0
       /\ pc \in AfterBusAccepted =>
            /\ vm_disk_address_dto["device_bus"] \in {"SCSI", "IDE", "PCI"}
            /\ pc' \in AfterBusAccepted =>
                   vm_disk_address_dto' = vm_disk_address_dto
            /\ pc' = "disk_bus" => (pc = "disk_bus_confirm" /\ Disks' = Disks)
       /\ Len(Disks') > Len(Disks) =>
            /\ pc \in {"disk_bus_confirm", "disk_container_confirm"}
            /\ Len(Disks') = Len(Disks) + 1
            /\ DeviceBus(Disks'[Len(Disks')])
                   = vm_disk_address_dto["device_bus"]
       /\ \A i \in 1..Len(Disks') :
            DeviceBus(Disks'[i]) \in {"SCSI", "IDE", "PCI"}]_vars

\* C15 witness: with a PCI disk in the Builder, the line "scsi" was entered
\* as the bus type of the next disk and the wizard asks for it again.
C15_Witness ==
    /\ pc = "disk_bus"
    /\ out = "Please input [SCSI/IDE/PCI]"
    /\ HasKey(vm_disk_address_dto, "device_bus")
    /\ vm_disk_address_dto["device_bus"] = "scsi"
    /\ Len(Disks) = 1
    /\ DeviceBus(Disks[1]) = "PCI"

IsPrefix(s, t) == Len(s) <= Len(t) /\ SubSeq(t, 1, Len(s)) = s

\* C16: every call of add_disk, add_nic, remove_disk, remove_nic or sync_vm
\* leaves the earlier disk and NIC sequences as prefixes of the new ones,
\* growing a sequence by at most its last element; remove_disk and
\* remove_nic leave both sequences unchanged.
C16_SequencesOnlyGrowByAppend ==
    [][/\ IsPrefix(Disks, Disks')
       /\ IsPrefix(Nics, Nics')
       /\ Len(Disks') + Len(Nics') <= Len(Disks) + Len(Nics) + 1
       /\ pc' \in {"remove_disk", "remove_nic", "sync_vm", "sync_vm raised"} =>
            (Disks' = Disks /\ Nics' = Nics)]_vars

\* C16 witness: remove_disk has returned on a Builder with two disks and
\* one NIC, which are still there.
C16_Witness ==
    /\ pc = "remove_disk"
    /\ Len(Disks) = 2
    /\ Len(Nics) = 1

\* The three flags of a disk dict are those of the bus type.
FlagsMatchBus(disk, device_bus) ==
    /\ HasKey(disk, "is_cdrom")
    /\ HasKey(disk, "is_empty")
    /\ HasKey(disk, "is_scsi_pass_through")
    /\ disk["is_cdrom"] = (device_bus = "IDE")
    /\ disk["is_empty"] = (device_bus = "IDE")
    /\ disk["is_scsi_pass_through"] = FALSE

\* C17: every DiskSpec of the Builder has is_cdrom and is_empty true when
\* its device_bus is IDE and false otherwise, and is_scsi_pass_through
\* false; so has the DiskSpec under construction from the acceptance of a
\* bus type on, whatever bus type was entered and declined before.
C17_FlagsFollowBus ==
    /\ \A i \in 1..Len(Disks) : FlagsMatchBus(Disks[i], DeviceBus(Disks[i]))
    /\ pc \in AfterBusAccepted =>
           FlagsMatchBus(vm_disk_dto, vm_disk_address_dto["device_bus"])

\* C17 witness: the Builder holds an IDE disk with both flags true; for the
\* next disk SCSI was entered and declined, and its flags are still in
\* vm_disk_dto when the bus type is asked again.
C17_Witness ==
    /\ pc = "disk_bus"
    /\ answer = <<"N">>
    /\ vm_disk_address_dto["device_bus"] = "SCSI"
    /\ vm_disk_dto["is_cdrom"] = FALSE
    /\ vm_disk_dto["is_empty"] = FALSE
    /\ Len(Disks) = 1
    /\ DeviceBus(Disks[1]) = "IDE"
    /\ Disks[1]["is_cdrom"] = TRUE
    /\ Disks[1]["is_empty"] = TRUE

\* The prompts of add_vm_disk reached only with a confirmed non-IDE bus.
ContainerSelection == {"disk_container", "disk_size",
                       "disk_container_confirm"}

\* C18: the container inventory is fetched only once a bus type other than
\* IDE is confirmed: as long as the run has confirmed no bus type but IDE,
\* the controller holds no container inventory.
C18_ContainersFetchedOnlyForNonIde ==
    (/\ BuilderExists
     /\ pc \notin ContainerSelection
     /\ \A i \in 1..Len(Disks) : DeviceBus(Disks[i]) = "IDE") =>
        IsNone(containers)

\* The lists of the body built by sync_vm; an absent key is the empty list.
BodyDisks(dto) == IF HasKey(dto, "vm_disks") THEN dto["vm_disks"] ELSE << >>
BodyNics(dto) == IF HasKey(dto, "vm_nics") THEN dto["vm_nics"] ELSE << >>

\* C19: there is one Builder at most, and none outside a run: at the menu,
\* during the required fields and after the exit no Builder, inventory or
\* body exists.  The Builder of a run is created from the four fields
\* entered in that run, with empty disk and NIC sequences, and the body
\* serialized in a run holds these fields and exactly the disks and NICs
\* confirmed in that run.
C19_NoStateSharedBetweenRuns ==
    [][/\ pc' \in {"menu", "exited"} \cup RequiredPhase =>
            /\ ~BuilderExists'
            /\ IsNone(containers')
            /\ IsNone(networks')
            /\ IsNone(sync_vm_dto')
       /\ (pc = "menu" /\ pc' = "name") =>
            (disk_inputs' = << >> /\ nic_inputs' = << >>)
       /\ (pc = "required_confirm" /\ pc' = "disk_ask") =>
            /\ vm_config_dto'.vm_name = vm_name
            /\ vm_config_dto'.vm_num_vcpus = vm_num_vcpus
            /\ vm_config_dto'.vm_num_cores_per_vcpu = vm_num_cores_per_vcpu
            /\ vm_config_dto'.vm_memory_mb = vm_memory_mb
            /\ vm_config_dto'.vm_disks = << >>
            /\ vm_config_dto'.vm_nics = << >>
       /\ (BuilderExists /\ BuilderExists') =>
            /\ vm_config_dto'.vm_name = vm_config_dto.vm_name
            /\ vm_config_dto'.vm_num_vcpus = vm_config_dto.vm_num_vcpus
            /\ vm_config_dto'.vm_num_cores_per_vcpu
                   = vm_config_dto.vm_num_cores_per_vcpu
            /\ vm_config_dto'.vm_memory_mb = vm_config_dto.vm_memory_mb
       /\ pc' = "sync_vm" =>
            /\ sync_vm_dto'["name"] = vm_config_dto.vm_name
            /\ sync_vm_dto'["num_vcpus"] = vm_config_dto.vm_num_vcpus
            /\ Len(BodyDisks(sync_vm_dto')) = Len(disk_inputs')
            /\ Len(BodyNics(sync_vm_dto')) = Len(nic_inputs')
            /\ \A i \in 1..Len(disk_inputs') :
                  DiskMatchesInputs(BodyDisks(sync_vm_dto')[i],
                                    disk_inputs'[i])
            /\ \A i \in 1..Len(nic_inputs') :
                  NicMatchesInputs(BodyNics(sync_vm_dto')[i],
                                   nic_inputs'[i])]_vars

\* C19 witness: a confirmed run has ended and the program is back at the
\* menu with no Builder, no inventory and no body left.
C19_Witness ==
    /\ pc = "menu"
    /\ final_response = <<"Y">>
    /\ out = "Creating a VM on the cluster"
    /\ ~BuilderExists
    /\ IsNone(containers)
    /\ IsNone(networks)
    /\ IsNone(sync_vm_dto)

\* C20: between two sub-wizard runs, at the final confirmation and in
\* sync_vm the Builder holds as many disks as the add-disk prompt was
\* answered "Y" and as many NICs as the add-NIC prompt was answered "Y";
\* inside a sub-wizard the run in progress is the one "Y" not yet matched
\* by an element.
C20_CountsEqualYesAnswers ==
    /\ pc \in {"disk_ask"} \cup NicPhase \cup {"final_confirm", "sync_vm"} =>
           Len(Disks) = disk_yes
    /\ pc \in DiskPhase \ {"disk_ask"} => Len(Disks) + 1 = disk_yes
    /\ pc \in {"nic_ask", "final_confirm", "sync_vm"} => Len(Nics) = nic_yes
    /\ pc \in NicPhase \ {"nic_ask"} => Len(Nics) + 1 = nic_yes
    /\ pc \in DiskPhase => (Nics = << >> /\ nic_yes = 0)

\* C20 witness: at the final confirmation after two "Y" at the add-disk
\* prompt and one "Y" at the add-NIC prompt, with two disks and one NIC.
C20_Witness ==
    /\ pc = "final_confirm"
    /\ disk_yes = 2
    /\ nic_yes = 1
    /\ Len(Disks) = 2
    /\ Len(Nics) = 1

====
